---- MODULE Spec2Model ----
(***************************************************************************)
(* Model of the retrying download wrapper (download_music) and of the      *)
(* thread-pool batch (download_parallel) of Downloader.py, with the other  *)
(* download wrappers and the menu loop that calls them.                    *)
(*                                                                         *)
(* Threads take steps from one blocking point to the next: the only        *)
(* blocking points are the delegate call (extract_info), future.result()   *)
(* and the executor's shutdown(wait=True) that ends the with block.        *)
(***************************************************************************)
EXTENDS Integers, Sequences, FiniteSets, TLC

\* Bounds of the explored inputs: the length of the url list, the retries
\* argument, the delegate calls one batch can make (urls times retries), and
\* the length of a list that holds the same url at every position.
MaxUrls == 6
MaxRetries == 3
MaxCalls == 6
MaxSame == 2
\* Bound on the rounds of the menu loop in which the user repeats choice "1".
MaxRounds == 2

\* Bounds of the clock: the latest scheduled time, in seconds after the call
\* of scheduled_download, and the longest time one time.sleep(1) takes.
MaxTime == 3
MaxSleep == 2

\* ThreadPoolExecutor(max_workers=5)
max_workers == 5

\* retries=3, the default of every wrapper
default_retries == 3

Tasks == 1..MaxUrls
Budgets == (0 - 1)..MaxRetries
\* The url lists of a batch: n different urls, or the same url n times. A
\* task is the position of its url in the list.
Distinct(n) == [i \in 1..n |-> i]
Repeated(n) == [i \in 1..n |-> 1]
UrlLists == {Distinct(n) : n \in 0..MaxUrls} \cup {Repeated(n) : n \in 2..MaxSame}
BatchInputs == {in \in UrlLists \X Budgets : Len(in[1]) * in[2] <= MaxCalls}

\* Results of one delegate call (ydl.extract_info and the rest of the with body).
Results == {"ok", "DownloadError", "Exception"}
\* Results of set_metadata's body (EasyID3 load, assignment, save).
TagResults == {"ok", "Exception"}

\* Python values returned by the wrappers.
None == [kind |-> "None", file |-> 0]
Pending == [kind |-> "pending", file |-> 0]
Raised == [kind |-> "KeyboardInterrupt", file |-> 0]
AbsPath(u) == [kind |-> "path", file |-> u]

\* What download_parallel hands to its caller: None, or the KeyboardInterrupt
\* it lets through. The outcomes field is the list a caller could read from
\* the value: None carries none.
BatchNone == [kind |-> "None", outcomes |-> << >>]
BatchPending == [kind |-> "pending", outcomes |-> << >>]
BatchRaised == [kind |-> "KeyboardInterrupt", outcomes |-> << >>]

\* The proxy, output_format and output_dir the menu passes when the user
\* leaves the three prompts blank.
NoArgs == [proxy |-> "unset", output_format |-> "unset", output_dir |-> "unset"]
MenuArgs == [proxy |-> "", output_format |-> "mp3", output_dir |-> "."]

\* The option dictionary download_music builds from its arguments, as the
\* entries that depend on them.
NoOpts == [preferredcodec |-> "unset", outtmpl |-> << >>, proxy |-> "unset"]
ydl_opts(a) ==
    [preferredcodec |-> a.output_format,
     outtmpl |-> <<a.output_dir, "%(title)s.%(ext)s">>,
     proxy |-> a.proxy]

\* Mutant of LocalOpts: one module-level dictionary serves every call.
SharedOpts(o, t, d) == [q \in DOMAIN o |-> d]

\* ydl_opts is a local variable of download_music: the call of task t binds
\* its own dictionary d and no other call's.
LocalOpts(o, t, d) == [o EXCEPT ![t] = d]

\* No call of download_music has been made in an earlier round.
NoPrev == [ret |-> Pending, calls |-> 0, hist |-> << >>]

\* `if downloaded_file_path:` in the menu.
Truthy(v) == v.kind = "path"

\* The scheduled_time argument: the empty string of a blank prompt, a text
\* that strptime does not parse, or a text of the format "%Y-%m-%d %H:%M:%S",
\* as the second it names (negative: before the call).
Blank == [kind |-> "blank", at |-> 0]
Malformed == [kind |-> "malformed", at |-> 0]
At(n) == [kind |-> "time", at |-> n]
ScheduledTimes == {Blank, Malformed} \cup {At(n) : n \in (0 - 1)..MaxTime}

VARIABLES
    choice,     \* menu choice being served: "none" or the string the user entered
    urls,       \* the input list: the url at each position
    retries,    \* the retries argument of the call
    args,       \* the proxy, output_format and output_dir arguments of the call
    mainPc,     \* main thread: "menu", "wait", "call", "submit", "collect", "shutdown",
                \* "returned" (the branch of the choice is over), "exited"
    futures,    \* download_parallel's list of futures (the task each one is for)
    exc,        \* exception travelling up the main thread: "none", "KeyboardInterrupt"
                \* or "ValueError"
    round,      \* the round of the menu loop being served
    prev,       \* what the download_music call of the round before did
    interrupts, \* number of KeyboardInterrupts delivered to the main thread in this round
    st,         \* per task: "new", "queued", "inflight" (inside the delegate call), "done"
    opts,       \* per task: the ydl_opts dictionary of its call of download_music
    attempt,    \* per task: the loop variable of `for attempt in range(retries)`
    calls,      \* per task: number of delegate invocations made so far
    picks,      \* per task: number of times a worker took it from the work queue
    hist,       \* per task: results of the delegate calls that have returned
    tagged,     \* per task: number of set_metadata calls
    ret,        \* per task: value returned by download_music (the future's result)
    log,        \* per task: records written by logging.warning / logging.error
    batchRet,   \* value download_parallel handed to its caller
    now,        \* datetime.now(), in seconds since the call of scheduled_download
    scheduled_time, \* the scheduled_time argument of scheduled_download
    printed     \* the last message of the menu loop: "nothing" from a choice to its message

vars == <<choice, urls, retries, args, mainPc, round, prev, futures, exc, interrupts, st, opts,
          attempt, calls, picks, hist, tagged, ret, log, batchRet, printed, now,
          scheduled_time>>

taskVars == <<st, opts, attempt, calls, picks, hist, tagged, ret, log>>

Init ==
    /\ choice = "none"
    /\ urls = << >>
    /\ retries = 0
    /\ args = NoArgs
    /\ mainPc = "menu"
    /\ round = 1
    /\ prev = NoPrev
    /\ futures = << >>
    /\ exc = "none"
    /\ interrupts = 0
    /\ st = [t \in Tasks |-> "new"]
    /\ opts = [t \in Tasks |-> NoOpts]
    /\ attempt = [t \in Tasks |-> 0]
    /\ calls = [t \in Tasks |-> 0]
    /\ picks = [t \in Tasks |-> 0]
    /\ hist = [t \in Tasks |-> << >>]
    /\ tagged = [t \in Tasks |-> 0]
    /\ ret = [t \in Tasks |-> Pending]
    /\ log = [t \in Tasks |-> << >>]
    /\ batchRet = BatchPending
    /\ printed = "nothing"
    /\ now = 0
    /\ scheduled_time = Blank

(***************************************************************************)
(* download_music                                                          *)
(***************************************************************************)

\* Mutant of RangeNonEmpty: the body runs once before the budget is looked at.
RangeNonEmptyOnce(r) == TRUE

\* `for attempt in range(retries)`: the loop body runs at all.
RangeNonEmpty(r) == 0 < r

\* Mutant of NextAttempt: the loop variable is not advanced.
NextAttemptStuck(a) == a

\* `for attempt in range(retries)`: the value of attempt in the iteration
\* after the one of value a.
NextAttempt(a) == a + 1

\* `for attempt in range(retries)`: there is an iteration after attempt a.
RangeHasNext(a, r) == a + 1 < r

\* Mutant of WarnAndRetry: the budget test is off by one and gives up early.
WarnAndRetryEarly(a, r) == a < r - 2

\* Mutant of WarnAndRetry: the budget test is off by one and warns on the last
\* attempt too.
WarnAndRetryLate(a, r) == a < r

\* `if attempt < retries - 1` in the DownloadError handler.
WarnAndRetry(a, r) == a < r - 1

\* set_metadata(file_path, metadata): every Exception of its body is logged
\* and swallowed; nothing is returned. The value is what it adds to the log.
set_metadata(g) == IF g = "ok" THEN << >> ELSE <<"ERROR metadata">>

\* Mutant of TagRaises: set_metadata logs the error and raises it again.
TagRaisesAgain(g) == g # "ok"

\* set_metadata's `except Exception` handler ends without a raise: whatever
\* its body meets, no exception leaves set_metadata.
TagRaises(g) == FALSE

\* Mutant of TagCalls: set_metadata is called after every attempt.
TagCallsAlways(res) == 1

\* The set_metadata calls of one loop iteration: the call stands after
\* extract_info in the try body, so it is reached only when that succeeded.
TagCalls(res) == IF res = "ok" THEN 1 ELSE 0

\* The call of download_music up to its first blocking point: the first
\* delegate call, or the end of the function when the range is empty.
EnterMusic(r) ==
    IF RangeNonEmpty(r)
    THEN [st |-> "inflight", attempt |-> 0, calls |-> 1, ret |-> Pending]
    ELSE [st |-> "done", attempt |-> 0, calls |-> 0, ret |-> None]

\* Mutant of SuccessValue: the return statement of the success path is lost,
\* the function falls off its end.
SuccessValueLost(u) == None

\* The value returned after a successful delegate call.
SuccessValue(u) == AbsPath(u)

\* Mutant of FailureValue: the returned value is tagged with the failure kind.
FailureValueTagged(kind) == [kind |-> kind, file |-> 0]

\* The value returned after a terminal failure of either kind: "DownloadError"
\* (retry budget used up) or "Exception" (unexpected error).
FailureValue(kind) == None

\* Mutant of Recoverable: the retrying handler catches every Exception.
RecoverableAny(res) == res # "ok"

\* `except yt_dlp.utils.DownloadError`: the errors that are retried.
Recoverable(res) == res = "DownloadError"

\* One delegate call of attempt a has ended with res (g is what set_metadata
\* meets): the rest of the loop body, up to the next delegate call or the
\* return. calls counts the delegate call that a further iteration starts.
AfterCall(u, a, r, res, g) ==
    CASE res = "ok" /\ ~TagRaises(g) ->
           [st |-> "done", attempt |-> a, calls |-> 0, tagged |-> TagCalls(res),
            ret |-> SuccessValue(u), log |-> set_metadata(g)]
      [] res = "ok" /\ TagRaises(g) ->
           [st |-> "done", attempt |-> a, calls |-> 0, tagged |-> TagCalls(res),
            ret |-> FailureValue("Exception"),
            log |-> set_metadata(g) \o <<"ERROR unexpected">>]
      [] Recoverable(res) /\ WarnAndRetry(a, r) ->
           IF RangeHasNext(a, r)
           THEN [st |-> "inflight", attempt |-> NextAttempt(a), calls |-> 1,
                 tagged |-> TagCalls(res), ret |-> Pending,
                 log |-> <<"WARNING retry">>]
           ELSE [st |-> "done", attempt |-> a, calls |-> 0,
                 tagged |-> TagCalls(res), ret |-> None,
                 log |-> <<"WARNING retry">>]
      [] Recoverable(res) /\ ~WarnAndRetry(a, r) ->
           [st |-> "done", attempt |-> a, calls |-> 0, tagged |-> TagCalls(res),
            ret |-> FailureValue("DownloadError"), log |-> <<"ERROR download">>]
      [] OTHER ->
           [st |-> "done", attempt |-> a, calls |-> 0, tagged |-> TagCalls(res),
            ret |-> FailureValue("Exception"), log |-> <<"ERROR unexpected">>]

(***************************************************************************)
(* The other wrappers                                                      *)
(***************************************************************************)

\* The menu choices that call a wrapper with the retry loop of download_music
\* on the main thread, and the wrapper each one calls.
WrapperChoices == {"2", "3", "4", "6", "7", "8", "9", "10", "11", "12", "15"}

Callee(c) ==
    CASE c = "1" -> "download_music"
      [] c = "2" -> "download_playlist"
      [] c = "3" -> "download_video"
      [] c = "4" -> "download_subtitles"
      [] c = "5" -> "download_music"
      [] c = "6" -> "download_video_with_subs"
      [] c = "7" -> "download_audio_from_video"
      [] c = "8" -> "download_video_custom_quality"
      [] c = "9" -> "download_video_chunked"
      [] c = "10" -> "download_with_speed_limit"
      [] c = "11" -> "download_video_advanced"
      [] c = "12" -> "download_subtitles_multilang"
      [] c = "13" -> "download_video"
      [] c = "14" -> "download_preview"
      [] c = "15" -> "download_compressed_video"
      [] OTHER -> "none"

\* Only download_music calls set_metadata.
Tags(f) == f = "download_music"

\* os.path.abspath(output_dir), the value download_playlist returns: a path
\* that is the file of no url.
AbsDir == [kind |-> "path", file |-> 0]

\* The value a wrapper returns after a success: the path of the file, but the
\* output directory for download_playlist.
WrapperValue(f, u) == IF f = "download_playlist" THEN AbsDir ELSE AbsPath(u)

\* Mutant of WrapperWarns: one wrapper gives up one attempt early.
WrapperWarnsButOne(f, a, r) ==
    IF f = "download_video_chunked" THEN a < r - 2 ELSE a < r - 1

\* `if attempt < retries - 1` in the DownloadError handler of wrapper f.
WrapperWarns(f, a, r) == a < r - 1

\* What the loop body of a retrying wrapper other than download_music does
\* once its delegate call has ended with res.
AfterRetry(f, u, a, r, res) ==
    CASE res = "ok" ->
           [st |-> "done", attempt |-> a, calls |-> 0, tagged |-> 0,
            ret |-> WrapperValue(f, u), log |-> << >>]
      [] res = "DownloadError" /\ WrapperWarns(f, a, r) ->
           IF RangeHasNext(a, r)
           THEN [st |-> "inflight", attempt |-> NextAttempt(a), calls |-> 1,
                 tagged |-> 0, ret |-> Pending, log |-> <<"WARNING retry">>]
           ELSE [st |-> "done", attempt |-> a, calls |-> 0, tagged |-> 0,
                 ret |-> None, log |-> <<"WARNING retry">>]
      [] res = "DownloadError" /\ ~WrapperWarns(f, a, r) ->
           [st |-> "done", attempt |-> a, calls |-> 0, tagged |-> 0,
            ret |-> None, log |-> <<"ERROR download">>]
      [] OTHER ->
           [st |-> "done", attempt |-> a, calls |-> 0, tagged |-> 0,
            ret |-> None, log |-> <<"ERROR unexpected">>]

\* Mutant of AfterPreview: download_preview has the retry loop of the other
\* wrappers, with their default budget.
AfterPreviewRetrying(u, a, res) == AfterRetry("download_preview", u, a, 3, res)

\* download_preview has no loop: whatever its one delegate call ends with, the
\* function returns.
AfterPreview(u, a, res) ==
    CASE res = "ok" ->
           [st |-> "done", attempt |-> a, calls |-> 0, tagged |-> 0,
            ret |-> AbsPath(u), log |-> << >>]
      [] res = "DownloadError" ->
           [st |-> "done", attempt |-> a, calls |-> 0, tagged |-> 0,
            ret |-> None, log |-> <<"ERROR download">>]
      [] OTHER ->
           [st |-> "done", attempt |-> a, calls |-> 0, tagged |-> 0,
            ret |-> None, log |-> <<"ERROR unexpected">>]

\* The step of a call of wrapper f after its delegate call has ended.
AfterWrapper(f, u, a, r, res, g) ==
    CASE f = "download_music" -> AfterCall(u, a, r, res, g)
      [] f = "download_preview" -> AfterPreview(u, a, res)
      [] OTHER -> AfterRetry(f, u, a, r, res)

(***************************************************************************)
(* The menu's report after the call                                        *)
(***************************************************************************)

\* Choice "1": the returned value decides the message.
Report1(v) ==
    CASE v.kind = "KeyboardInterrupt" -> "canceled"
      [] Truthy(v) -> "success"
      [] OTHER -> "failed"

\* Mutant of BranchEnd: the branches have no handler of KeyboardInterrupt,
\* which ends the program.
BranchEndUncaught(e) == IF e = "KeyboardInterrupt" THEN "exited" ELSE "returned"

\* Where the main thread is after the call of a branch came back with the
\* exception e, or with none: every branch of choices "1" to "15" has
\* `except KeyboardInterrupt` and `except Exception`, which print and fall
\* through to the end of the branch.
BranchEnd(e) == "returned"

\* Every choice: the message of `except Exception as e`.
ReportError == "error"

\* Choice "5": the message after download_parallel came back.
Report5(e) == IF e = "KeyboardInterrupt" THEN "canceled" ELSE "success"

(***************************************************************************)
(* download_parallel                                                       *)
(***************************************************************************)

\* Mutant of ParallelValue: the futures' results are returned as a list.
ParallelValueList(results) == [kind |-> "list", outcomes |-> results]

\* What download_parallel returns: the function has no return statement.
\* Mutant of ParallelValue: download_parallel returns whether every task
\* succeeded.
ParallelValueAllOk(results) ==
    [kind |-> IF \A i \in 1..Len(results) : Truthy(results[i])
              THEN "True" ELSE "False",
     outcomes |-> << >>]

ParallelValue(results) == BatchNone

\* Mutant of ResultRaises: a failed task's result is raised in the caller.
ResultRaisesOnFailure(v) == v.kind # "path"

\* future.result() raises when the callable ended by raising.
ResultRaises(v) == v.kind \notin {"None", "path"}

InFlight == {t \in Tasks : st[t] = "inflight"}
Submitted == {futures[i] : i \in 1..Len(futures)}
Unfinished == {t \in Submitted : st[t] # "done"}

\* The results the futures hold, in the order of the futures list.
Outcomes == [i \in 1..Len(futures) |-> ret[futures[i]]]

\* Mutant of WorkersJoined: the executor is shut down without waiting.
WorkersJoinedNoWait == TRUE

\* executor.shutdown(wait=True), run by the exit of the with block, is over:
\* every worker thread has ended, which they do once the work queue is empty.
WorkersJoined == Unfinished = {}

\* Mutant of QueueHead: a work item waits while a running one has its url,
\* and so its output file.
QueueHeadFileFree(t) ==
    \E i \in 1..Len(futures) :
        /\ futures[i] = t
        /\ st[t] = "queued"
        /\ \A j \in 1..(i - 1) : st[futures[j]] # "queued"
        /\ \A q \in 1..Len(urls) : st[q] = "inflight" => urls[q] # urls[t]

\* Mutant of QueueHead: a work item stays in the queue while it is running.
QueueHeadNoPop(t) ==
    \E i \in 1..Len(futures) :
        /\ futures[i] = t
        /\ st[t] \in {"queued", "inflight"}
        /\ \A j \in 1..(i - 1) : st[futures[j]] \notin {"queued", "inflight"}

\* The work queue is FIFO: the next work item is the earliest submitted one
\* that no worker has taken.
QueueHead(t) ==
    \E i \in 1..Len(futures) :
        /\ futures[i] = t
        /\ st[t] = "queued"
        /\ \A j \in 1..(i - 1) : st[futures[j]] # "queued"

\* Where the loop over futures, run from position i, stops: at the first future
\* that is not over or whose result() raises (past the end: at no future).
NextStop(i) ==
    LET stops == {j \in i..Len(futures) :
                    st[futures[j]] # "done" \/ ResultRaises(ret[futures[j]])}
    IN  IF stops = {} THEN Len(futures) + 1
        ELSE CHOOSE j \in stops : \A k \in stops : j <= k

\* Mutant of WorkerFree: the pool has one worker.
WorkerFreeOne == InFlight = {}

\* Mutant of WorkerFree: the pool starts a thread for every work item.
WorkerFreeAlways == TRUE

\* Mutant of WorkerFree: a worker thread ends after its first work item.
WorkerFreeNoReuse ==
    Cardinality({t \in Tasks : st[t] \in {"inflight", "done"}}) < max_workers

\* A worker thread is free to take a work item.
WorkerFree == Cardinality(InFlight) < max_workers

(***************************************************************************)
(* Actions                                                                 *)
(***************************************************************************)

\* Menu choice "1": download_music(url, ..., retries = r) on the main thread.
CallDownloadMusic(r) ==
    /\ mainPc = "menu"
    /\ choice' = "1"
    /\ urls' = <<1>>
    /\ retries' = r
    /\ args' = MenuArgs
    /\ opts' = LocalOpts(opts, 1, ydl_opts(MenuArgs))
    /\ LET e == EnterMusic(r) IN
        /\ st' = [st EXCEPT ![1] = e.st]
        /\ attempt' = [attempt EXCEPT ![1] = e.attempt]
        /\ calls' = [calls EXCEPT ![1] = e.calls]
        /\ ret' = [ret EXCEPT ![1] = e.ret]
        /\ mainPc' = IF e.st = "done" THEN "returned" ELSE "call"
        /\ printed' = IF e.st = "done" THEN Report1(e.ret) ELSE "nothing"
    /\ UNCHANGED <<round, prev, futures, exc, interrupts, picks, hist, tagged, log,
                   batchRet>>
    /\ UNCHANGED <<now, scheduled_time>>

\* A menu choice c that calls a retrying wrapper other than download_music,
\* with retries = r. The option dictionary of these wrappers is not followed.
CallWrapper(c, r) ==
    /\ mainPc = "menu"
    /\ choice' = c
    /\ urls' = <<1>>
    /\ retries' = r
    /\ LET e == EnterMusic(r) IN
        /\ st' = [st EXCEPT ![1] = e.st]
        /\ attempt' = [attempt EXCEPT ![1] = e.attempt]
        /\ calls' = [calls EXCEPT ![1] = e.calls]
        /\ ret' = [ret EXCEPT ![1] = e.ret]
        /\ mainPc' = IF e.st = "done" THEN "returned" ELSE "call"
        /\ printed' = IF e.st = "done" THEN Report1(e.ret) ELSE "nothing"
    /\ UNCHANGED <<args, round, prev, futures, exc, interrupts, opts, picks, hist,
                   tagged, log, batchRet>>
    /\ UNCHANGED <<now, scheduled_time>>

\* What the user may type at the prompt for the preview duration.
Durations == {"10", "abc"}

\* int(duration) raises ValueError unless the text is a number.
IntRaises(d) == d # "10"

\* Menu choice "14": download_preview(url, proxy, output_dir, int(duration)).
\* int() is evaluated inside the try: its ValueError reaches the handler of
\* Exception before download_preview is called. download_preview, which has
\* no retries parameter, goes to its one delegate call.
CallDownloadPreview(d) ==
    /\ mainPc = "menu"
    /\ choice' = "14"
    /\ urls' = <<1>>
    /\ IF IntRaises(d)
       THEN /\ exc' = "ValueError"
            /\ mainPc' = BranchEnd("ValueError")
            /\ printed' = ReportError
            /\ UNCHANGED <<st, calls>>
       ELSE /\ st' = [st EXCEPT ![1] = "inflight"]
            /\ calls' = [calls EXCEPT ![1] = 1]
            /\ mainPc' = "call"
            /\ printed' = "nothing"
            /\ UNCHANGED exc
    /\ UNCHANGED <<retries, args, round, prev, futures, interrupts, opts,
                   attempt, picks, hist, tagged, ret, log, batchRet>>
    /\ UNCHANGED <<now, scheduled_time>>

\* Mutant of EnterAgain: download_music keeps the path of a success and
\* returns it for the next call without calling the delegate.
EnterAgainCached(r, p) ==
    IF Truthy(p.ret)
    THEN [st |-> "done", attempt |-> 0, calls |-> 0, ret |-> p.ret]
    ELSE EnterMusic(r)

\* download_music binds everything it uses at its entry (parameters, ydl_opts,
\* the loop variable) and has no global: a call starts as the first one did,
\* whatever the call before it (p) did.
EnterAgain(r, p) == EnterMusic(r)

\* The menu loop comes round and the user makes choice "1" again with the same
\* answers: download_music is called a second time with the same arguments.
CallDownloadMusicAgain ==
    /\ mainPc = "returned"
    /\ choice = "1"
    /\ round < MaxRounds
    /\ round' = round + 1
    /\ prev' = [ret |-> ret[1], calls |-> calls[1], hist |-> hist[1]]
    /\ exc' = "none"
    /\ interrupts' = 0
    /\ opts' = LocalOpts(opts, 1, ydl_opts(args))
    /\ hist' = [hist EXCEPT ![1] = << >>]
    /\ tagged' = [tagged EXCEPT ![1] = 0]
    /\ log' = [log EXCEPT ![1] = << >>]
    /\ LET e == EnterAgain(retries, prev') IN
        /\ st' = [st EXCEPT ![1] = e.st]
        /\ attempt' = [attempt EXCEPT ![1] = e.attempt]
        /\ calls' = [calls EXCEPT ![1] = e.calls]
        /\ ret' = [ret EXCEPT ![1] = e.ret]
        /\ mainPc' = IF e.st = "done" THEN "returned" ELSE "call"
        /\ printed' = IF e.st = "done" THEN Report1(e.ret) ELSE "nothing"
    /\ UNCHANGED <<choice, urls, retries, args, futures, picks, batchRet>>
    /\ UNCHANGED <<now, scheduled_time>>

\* Menu choice "5": download_parallel(urls, ..., retries = r) on the list us.
\* With no url both loops are empty and the call is over at once.
CallDownloadParallel(us, r) ==
    /\ mainPc = "menu"
    /\ choice' = "5"
    /\ urls' = us
    /\ retries' = r
    /\ args' = MenuArgs
    /\ IF us = << >>
       THEN /\ mainPc' = "returned"
            /\ batchRet' = ParallelValue(<< >>)
            /\ printed' = Report5("none")
       ELSE /\ mainPc' = "submit"
            /\ printed' = "nothing"
            /\ UNCHANGED batchRet
    /\ UNCHANGED <<round, prev, futures, exc, interrupts, taskVars>>
    /\ UNCHANGED <<now, scheduled_time>>

\* futures.append(executor.submit(download_music, url, ...)) for the next url.
Submit ==
    /\ mainPc = "submit"
    /\ Len(futures) < Len(urls)
    /\ LET t == Len(futures) + 1 IN
        /\ st' = [st EXCEPT ![t] = "queued"]
        /\ futures' = Append(futures, t)
    /\ mainPc' = IF Len(futures) + 1 = Len(urls) THEN "collect" ELSE "submit"
    /\ UNCHANGED <<choice, urls, retries, args, round, prev, exc, interrupts, opts, attempt,
                   calls, picks, hist, tagged, ret, log, batchRet, printed>>
    /\ UNCHANGED <<now, scheduled_time>>

\* Mutant of SubmittedRetries: download_parallel does not pass its retries
\* on, every task runs with download_music's default.
SubmittedRetriesDefault(r) == 3

\* executor.submit(download_music, url, proxy, output_format, output_dir,
\* retries): the budget of every task is the one download_parallel was given.
SubmittedRetries(r) == r

\* The retries parameter of the call of download_music that task t is.
TaskRetries(t) == IF choice = "5" THEN SubmittedRetries(retries) ELSE retries

\* A pool worker takes the head of the work queue and runs download_music up
\* to its first delegate call.
Start(t) ==
    /\ choice = "5"
    /\ QueueHead(t)
    /\ WorkerFree
    /\ LET e == EnterMusic(TaskRetries(t)) IN
        /\ st' = [st EXCEPT ![t] = e.st]
        /\ attempt' = [attempt EXCEPT ![t] = e.attempt]
        /\ calls' = [calls EXCEPT ![t] = e.calls]
        /\ ret' = [ret EXCEPT ![t] = e.ret]
    /\ opts' = LocalOpts(opts, t, ydl_opts(args))
    /\ picks' = [picks EXCEPT ![t] = @ + 1]
    /\ UNCHANGED <<choice, urls, retries, args, round, prev, mainPc, futures, exc, interrupts,
                   hist, tagged, log, batchRet, printed>>
    /\ UNCHANGED <<now, scheduled_time>>

\* Mutant of TaskUrl: every task reads the loop variable `url` when it runs,
\* after the submit loop has ended.
TaskUrlLate(t) == urls[Len(urls)]

\* The url of task t: executor.submit(download_music, url, ...) binds the
\* value of the loop variable at the submit.
TaskUrl(t) == urls[t]

\* The delegate call of task t ends with res; the thread runs on to its next
\* delegate call or to the end of download_music. On the main thread (choice
\* "1") the end of download_music is followed by the menu's report. The body
\* of set_metadata gives g; it only runs, and so only fails, after a success
\* of the delegate.
Return(t, res, g) ==
    /\ st[t] = "inflight"
    /\ (TagCalls(res) = 0 \/ ~Tags(Callee(choice))) => g = "ok"
    /\ LET a == AfterWrapper(Callee(choice), TaskUrl(t), attempt[t], TaskRetries(t),
                             res, g) IN
        /\ st' = [st EXCEPT ![t] = a.st]
        /\ attempt' = [attempt EXCEPT ![t] = a.attempt]
        /\ calls' = [calls EXCEPT ![t] = @ + a.calls]
        /\ hist' = [hist EXCEPT ![t] = Append(@, res)]
        /\ tagged' = [tagged EXCEPT ![t] = @ + a.tagged]
        /\ ret' = [ret EXCEPT ![t] = a.ret]
        /\ log' = [log EXCEPT ![t] = @ \o a.log]
        /\ IF choice # "5" /\ a.st = "done"
           THEN /\ mainPc' = "returned"
                /\ printed' = Report1(a.ret)
           ELSE UNCHANGED <<mainPc, printed>>
    /\ UNCHANGED <<choice, urls, retries, args, round, prev, futures, exc, interrupts, opts,
                   picks, batchRet>>
    /\ UNCHANGED <<now, scheduled_time>>

\* The loop `for future in futures: future.result()`. The main thread waits
\* in it for the first future, in list order, that is not over; the loop ends
\* when there is none, or at the first future whose result() raises. Every
\* value is dropped.
Collect ==
    /\ mainPc = "collect"
    /\ LET k == NextStop(1) IN
        \/ /\ k > Len(futures)
           /\ exc' = exc
        \/ /\ k <= Len(futures)
           /\ st[futures[k]] = "done"
           /\ exc' = ret[futures[k]].kind
    /\ mainPc' = "shutdown"
    /\ UNCHANGED <<choice, urls, retries, args, round, prev, futures, interrupts, taskVars, batchRet,
                   printed>>
    /\ UNCHANGED <<now, scheduled_time>>

\* The with block's exit, executor.shutdown(wait=True), has joined every
\* worker thread: download_parallel returns, or lets the exception travel on,
\* and the menu reports.
ShutdownDone ==
    /\ mainPc = "shutdown"
    /\ WorkersJoined
    /\ mainPc' = BranchEnd(exc)
    /\ batchRet' = IF exc = "none" THEN ParallelValue(Outcomes) ELSE BatchRaised
    /\ printed' = Report5(exc)
    /\ UNCHANGED <<choice, urls, retries, args, round, prev, futures, exc, interrupts, taskVars>>
    /\ UNCHANGED <<now, scheduled_time>>

\* Mutant of LoopExit: the loop catches the exception and goes on.
LoopExitResumes(pc) == pc

\* Neither loop of download_parallel has a try: an exception raised in the
\* loop at pc leaves the loop for the exit of the with block.
LoopExit(pc) == "shutdown"

\* KeyboardInterrupt reaches the main thread. In the loops of download_parallel
\* it leaves the with block, whose exit waits for the workers; in that wait
\* it ends the wait; in a wrapper on the main thread no handler of the
\* wrapper catches it; in the sleep of scheduled_download, which has no
\* handler, it ends the call before download_video is called.
Interrupt ==
    \/ /\ mainPc \in {"submit", "collect"}
       /\ exc' = "KeyboardInterrupt"
       /\ interrupts' = interrupts + 1
       /\ mainPc' = LoopExit(mainPc)
       /\ UNCHANGED <<choice, urls, retries, args, round, prev, futures, taskVars, batchRet,
                      printed, now, scheduled_time>>
    \/ /\ mainPc = "shutdown"
       /\ ~WorkersJoined
       /\ exc' = "KeyboardInterrupt"
       /\ interrupts' = interrupts + 1
       /\ mainPc' = BranchEnd("KeyboardInterrupt")
       /\ batchRet' = BatchRaised
       /\ printed' = Report5("KeyboardInterrupt")
       /\ UNCHANGED <<choice, urls, retries, args, round, prev, futures, taskVars, now,
                      scheduled_time>>
    \/ /\ mainPc = "call"
       /\ st' = [st EXCEPT ![1] = "done"]
       /\ ret' = [ret EXCEPT ![1] = Raised]
       /\ exc' = "KeyboardInterrupt"
       /\ interrupts' = interrupts + 1
       /\ mainPc' = BranchEnd("KeyboardInterrupt")
       /\ printed' = Report1(Raised)
       /\ UNCHANGED <<choice, urls, retries, args, round, prev, futures, opts, attempt, calls,
                      picks, hist, tagged, log, batchRet, now, scheduled_time>>
    \/ /\ mainPc = "wait"
       /\ exc' = "KeyboardInterrupt"
       /\ interrupts' = interrupts + 1
       /\ mainPc' = BranchEnd("KeyboardInterrupt")
       /\ printed' = Report1(Raised)
       /\ UNCHANGED <<choice, urls, retries, args, round, prev, futures, taskVars, batchRet,
                      now, scheduled_time>>

\* strptime(scheduled_time, "%Y-%m-%d %H:%M:%S") raises ValueError.
StrptimeRaises(s) == s.kind = "malformed"

\* Mutant of MustWait: the loop stops one second early.
MustWaitShort(n, s) == s.kind = "time" /\ n + 1 < s.at

\* `if scheduled_time:` and `while datetime.now() < scheduled_time`: the call
\* sleeps on when a time was given and the clock is before it.
MustWait(n, s) == s.kind = "time" /\ n < s.at

\* return download_video(url, proxy, output_format, output_dir, quality): the
\* retries argument is not passed, download_video runs with its default.
InvokeDownloadVideo ==
    /\ retries' = default_retries
    /\ LET e == EnterMusic(default_retries) IN
        /\ st' = [st EXCEPT ![1] = e.st]
        /\ attempt' = [attempt EXCEPT ![1] = e.attempt]
        /\ calls' = [calls EXCEPT ![1] = e.calls]
        /\ ret' = [ret EXCEPT ![1] = e.ret]
        /\ mainPc' = IF e.st = "done" THEN "returned" ELSE "call"
        /\ printed' = IF e.st = "done" THEN Report1(e.ret) ELSE "nothing"

\* Menu choice "13": scheduled_download(url, ..., scheduled_time = s), called
\* inside the try of the branch. A text that strptime refuses raises
\* ValueError to the handler of Exception; a time that is still ahead starts
\* the wait; otherwise download_video is called at once.
ScheduledDownload(s) ==
    /\ mainPc = "menu"
    /\ choice' = "13"
    /\ urls' = <<1>>
    /\ scheduled_time' = s
    /\ IF StrptimeRaises(s)
       THEN /\ exc' = "ValueError"
            /\ mainPc' = BranchEnd("ValueError")
            /\ printed' = ReportError
            /\ UNCHANGED <<retries, st, attempt, calls, ret>>
       ELSE /\ exc' = exc
            /\ IF MustWait(now, s)
               THEN /\ mainPc' = "wait"
                    /\ printed' = "nothing"
                    /\ UNCHANGED <<retries, st, attempt, calls, ret>>
               ELSE InvokeDownloadVideo
    /\ UNCHANGED <<args, round, prev, futures, interrupts, opts, picks, hist, tagged,
                   log, batchRet, now>>

\* time.sleep(1) returns after d seconds and the loop looks at the clock
\* again: it sleeps on, or ends and download_video is called.
Sleep(d) ==
    /\ mainPc = "wait"
    /\ now' = now + d
    /\ IF MustWait(now', scheduled_time)
       THEN UNCHANGED <<mainPc, printed, retries, st, attempt, calls, ret>>
       ELSE InvokeDownloadVideo
    /\ UNCHANGED <<choice, urls, args, round, prev, futures, exc, interrupts, opts, picks,
                   hist, tagged, log, batchRet, scheduled_time>>

\* Texts the user may enter at the menu that are none of "1" .. "16".
OtherChoices == {"0", "17", "x"}

\* The else branch of the menu: the message, and no call.
InvalidChoice(c) ==
    /\ mainPc = "menu"
    /\ choice' = c
    /\ mainPc' = "returned"
    /\ printed' = "invalid"
    /\ UNCHANGED <<urls, retries, args, round, prev, futures, exc, interrupts, taskVars,
                   batchRet>>
    /\ UNCHANGED <<now, scheduled_time>>

\* Choice "16": sys.exit(0) leaves the loop and the program.
Exit ==
    /\ mainPc = "menu"
    /\ choice' = "16"
    /\ mainPc' = "exited"
    /\ printed' = "exiting"
    /\ UNCHANGED <<urls, retries, args, round, prev, futures, exc, interrupts, taskVars,
                   batchRet>>
    /\ UNCHANGED <<now, scheduled_time>>

\* The branch of the choice is over, by its last statement or by one of its
\* two handlers, and `while True` calls interactive_menu() again: the menu is
\* printed, below the message of the round that is over, and the program
\* waits for the next choice. The other records of the round are dropped;
\* pool threads it left behind are followed no further.
ShowMenu ==
    /\ mainPc = "returned"
    /\ choice' = "none"
    /\ urls' = << >>
    /\ retries' = 0
    /\ args' = NoArgs
    /\ mainPc' = "menu"
    /\ round' = 1
    /\ prev' = NoPrev
    /\ futures' = << >>
    /\ exc' = "none"
    /\ interrupts' = 0
    /\ st' = [t \in Tasks |-> "new"]
    /\ opts' = [t \in Tasks |-> NoOpts]
    /\ attempt' = [t \in Tasks |-> 0]
    /\ calls' = [t \in Tasks |-> 0]
    /\ picks' = [t \in Tasks |-> 0]
    /\ hist' = [t \in Tasks |-> << >>]
    /\ tagged' = [t \in Tasks |-> 0]
    /\ ret' = [t \in Tasks |-> Pending]
    /\ log' = [t \in Tasks |-> << >>]
    /\ batchRet' = BatchPending
    /\ now' = 0
    /\ scheduled_time' = Blank
    /\ UNCHANGED printed

Next ==
    \/ \E r \in Budgets : CallDownloadMusic(r)
    \/ CallDownloadMusicAgain
    \/ \E c \in WrapperChoices, r \in Budgets : CallWrapper(c, r)
    \/ \E d \in Durations : CallDownloadPreview(d)
    \/ \E s \in ScheduledTimes : ScheduledDownload(s)
    \/ \E d \in 1..MaxSleep : Sleep(d)
    \/ \E in \in BatchInputs : CallDownloadParallel(in[1], in[2])
    \/ Submit
    \/ \E t \in Tasks : Start(t)
    \/ \E t \in Tasks, res \in Results, g \in TagResults : Return(t, res, g)
    \/ Collect
    \/ ShutdownDone
    \/ Interrupt
    \/ \E c \in OtherChoices : InvalidChoice(c)
    \/ Exit
    \/ ShowMenu

Spec == Init /\ [][Next]_vars

\* The task whose delegate call may never return.
MayHang(t) == t = 1

\* The batches followed to their end under fair scheduling: lists longer than
\* the pool by one url at most.
HangInputs == {in \in BatchInputs : Len(in[1]) <= max_workers + 1}

HangNext ==
    \/ \E r \in Budgets : CallDownloadMusic(r)
    \/ CallDownloadMusicAgain
    \/ \E c \in WrapperChoices, r \in Budgets : CallWrapper(c, r)
    \/ \E d \in Durations : CallDownloadPreview(d)
    \/ \E s \in ScheduledTimes : ScheduledDownload(s)
    \/ \E d \in 1..MaxSleep : Sleep(d)
    \/ \E in \in HangInputs : CallDownloadParallel(in[1], in[2])
    \/ Submit
    \/ \E t \in Tasks : Start(t)
    \/ \E t \in Tasks, res \in Results, g \in TagResults : Return(t, res, g)
    \/ Collect
    \/ ShutdownDone
    \/ Interrupt
    \/ \E c \in OtherChoices : InvalidChoice(c)
    \/ Exit
    \/ ShowMenu

\* The threads are scheduled: the main thread goes on whenever it can, a free
\* worker takes the head of the queue, and a delegate call returns or raises,
\* except the one of the task that may hang. Nothing makes the user interrupt
\* or make a choice.
HangSpec ==
    /\ Init /\ [][HangNext]_vars
    /\ WF_vars(Submit)
    /\ WF_vars(Collect)
    /\ WF_vars(ShutdownDone)
    /\ WF_vars(\E t \in Tasks : Start(t))
    /\ \A t \in Tasks :
         ~MayHang(t) => WF_vars(\E res \in Results, g \in TagResults : Return(t, res, g))

\* Every thread is scheduled, every delegate call returns or raises, every
\* time.sleep(1) returns, and the menu loop goes on; the user's choices and
\* interrupts come when they come.
LiveSpec ==
    /\ Init /\ [][HangNext]_vars
    /\ WF_vars(Submit)
    /\ WF_vars(Collect)
    /\ WF_vars(ShutdownDone)
    /\ WF_vars(ShowMenu)
    /\ WF_vars(\E d \in 1..MaxSleep : Sleep(d))
    /\ WF_vars(\E t \in Tasks : Start(t))
    /\ \A t \in Tasks :
         WF_vars(\E res \in Results, g \in TagResults : Return(t, res, g))

(***************************************************************************)
(* Properties of the retry loop                                            *)
(***************************************************************************)

\* The calls of the round are calls of download_music.
MusicCall == Callee(choice) = "download_music"

\* The calls of the round are calls of a function that has a retry loop.
LoopCall == Callee(choice) \notin {"none", "download_preview"}

AllRecoverable(h) == \A i \in 1..Len(h) : h[i] = "DownloadError"
Front(h) == SubSeq(h, 1, Len(h) - 1)

\* The step belongs to the round being served: it is not the menu loop going
\* round, nor the next call of choice "1".
InRound == choice' = choice /\ round' = round
Interrupted(t) == ret[t].kind = "KeyboardInterrupt"

\* C1: when the delegate raises DownloadError on exactly the first k attempts
\* (k < retries) and then succeeds, download_music has invoked it exactly k+1
\* times, is over, and returns the path; a success is never followed by
\* another delegate call.
Thm_C1_SuccessAfterKFailures ==
    \A t \in Tasks :
        /\ \A i \in 1..(Len(hist[t]) - 1) : hist[t][i] # "ok"
        /\ (/\ MusicCall
            /\ hist[t] # << >>
            /\ hist[t][Len(hist[t])] = "ok"
            /\ AllRecoverable(Front(hist[t])))
           => /\ Len(hist[t]) <= retries
              /\ st[t] = "done"
              /\ calls[t] = Len(hist[t])
              /\ ret[t] = AbsPath(urls[t])

\* C1 witness: two recoverable failures, then a success on the third and last
\* attempt of a budget of three.
Wit_C1_ThirdAttemptSucceeds ==
    \E t \in Tasks :
        /\ retries = 3
        /\ hist[t] = <<"DownloadError", "DownloadError", "ok">>
        /\ calls[t] = 3
        /\ ret[t] = AbsPath(urls[t])

\* C2: with a budget N >= 1 and a delegate that raises DownloadError on every
\* attempt, download_music invokes it exactly N times, never more, and then
\* returns the failure value, never a path.
Thm_C2_BudgetExhausted ==
    \A t \in Tasks :
        (retries >= 1 /\ st[t] \in {"inflight", "done"} /\ AllRecoverable(hist[t]))
        => /\ calls[t] <= retries
           /\ (Len(hist[t]) = retries => st[t] = "done")
           /\ (st[t] = "done" /\ ~Interrupted(t))
              => /\ Len(hist[t]) = retries
                 /\ calls[t] = retries
                 /\ ret[t] = None
                 /\ ~Truthy(ret[t])

\* C2 witness: a budget of three used up by three recoverable failures.
Wit_C2_ThreeFailures ==
    \E t \in Tasks :
        /\ retries = 3
        /\ st[t] = "done"
        /\ hist[t] = <<"DownloadError", "DownloadError", "DownloadError">>
        /\ calls[t] = 3
        /\ ret[t] = None

\* C3: an error other than DownloadError on attempt i ends download_music at
\* once with the failure value: the delegate was invoked exactly i times, the
\* i-1 earlier attempts all failed recoverably, and no call follows.
Thm_C3_UnexpectedEndsAtOnce ==
    \A t \in Tasks : \A i \in 1..Len(hist[t]) :
        (MusicCall /\ hist[t][i] = "Exception")
        => /\ i = Len(hist[t])
           /\ i <= retries
           /\ AllRecoverable(Front(hist[t]))
           /\ st[t] = "done"
           /\ calls[t] = i
           /\ ret[t] = None

\* C3 witness: an unexpected error on the second of three attempts.
Wit_C3_UnexpectedOnSecond ==
    \E t \in Tasks :
        /\ retries = 3
        /\ st[t] = "done"
        /\ hist[t] = <<"DownloadError", "Exception">>
        /\ calls[t] = 2
        /\ ret[t] = None

(***************************************************************************)
(* Properties of the returned values                                       *)
(***************************************************************************)

LastOf(h) == h[Len(h)]

\* The call of task t ended in a terminal failure (of the kind of its last
\* delegate result).
Failed(t) ==
    /\ st[t] = "done"
    /\ ~Interrupted(t)
    /\ hist[t] # << >>
    /\ LastOf(hist[t]) \in {"DownloadError", "Exception"}

\* C4 as stated: the returned outcome tells the two failure kinds apart: two
\* calls that failed for different kinds return different values.
Cex_C4_KindInReturnedValue ==
    \A t, u \in Tasks :
        (Failed(t) /\ Failed(u) /\ LastOf(hist[t]) # LastOf(hist[u]))
        => ret[t] # ret[u]

\* C4 amended: a terminal failure returns None whatever its kind; the kind is
\* told only by the last record the call logged ("Download error" after the
\* budget is used up, "An unexpected error occurred" otherwise).
Thm_C4_KindOnlyInLog ==
    \A t \in Tasks :
        Failed(t)
        => /\ ret[t] = None
           /\ log[t] # << >>
           /\ LastOf(log[t]) = IF LastOf(hist[t]) = "DownloadError"
                               THEN "ERROR download" ELSE "ERROR unexpected"

\* C4 witness: in one batch a call that used up its budget and a call that met
\* an unexpected error have returned the same value.
Wit_C4_TwoKindsSameValue ==
    \E t, u \in Tasks :
        /\ Failed(t) /\ LastOf(hist[t]) = "DownloadError"
        /\ Failed(u) /\ LastOf(hist[u]) = "Exception"
        /\ ret[t] = ret[u]

(***************************************************************************)
(* Properties of the batch                                                 *)
(***************************************************************************)

BatchReturned == choice = "5" /\ mainPc = "returned"
ReturnedNormally == BatchReturned /\ batchRet.kind # "KeyboardInterrupt"

\* C5 as stated: download_parallel returns one outcome per input descriptor,
\* at the position of the descriptor in the input list.
Cex_C5_OutcomesReturnedInOrder ==
    ReturnedNormally
    => /\ Len(batchRet.outcomes) = Len(urls)
       /\ \A i \in 1..Len(urls) : batchRet.outcomes[i] = ret[i]

\* C5 amended: download_parallel returns None; the outcome of the descriptor
\* at position i is held only by the i-th future (the futures are in input
\* order whatever the order of completion) and is dropped.
Thm_C5_OutcomesKeptInFuturesOnly ==
    /\ \A i \in 1..Len(futures) : futures[i] = i
    /\ ReturnedNormally
       => /\ batchRet = BatchNone
          /\ Len(futures) = Len(urls)
          /\ \A i \in 1..Len(urls) :
                /\ st[i] = "done"
                /\ Outcomes[i] \in {None, AbsPath(urls[i])}

\* C5 witness: a batch of five has returned with three successes and two
\* failures held by the futures at the positions of their descriptors.
Wit_C5_ThreeSuccessesTwoFailures ==
    /\ ReturnedNormally
    /\ Len(urls) = 5
    /\ Outcomes = <<AbsPath(1), None, AbsPath(3), None, AbsPath(5)>>
    /\ batchRet = BatchNone

\* C6 as stated: download_parallel never hands control back to its caller,
\* normally or by raising, while a submitted task is still queued or running.
Cex_C6_BarrierAlways == BatchReturned => Unfinished = {}

\* C6 amended: download_parallel returns normally only after every submitted
\* task is over, and so it does when it raises after a single KeyboardInterrupt;
\* only a second KeyboardInterrupt, arriving while the exit of the with block
\* waits for the workers, lets it raise with tasks still queued or running.
Thm_C6_BarrierUnlessWaitInterrupted ==
    BatchReturned
    => /\ (batchRet = BatchNone \/ interrupts <= 1) => Unfinished = {}
       /\ Unfinished # {} => batchRet = BatchRaised /\ interrupts = 2

\* C6 witness: the batch was interrupted once before all urls were submitted
\* and raised only with every submitted task over.
Wit_C6_DrainedAfterInterrupt ==
    /\ BatchReturned
    /\ batchRet = BatchRaised
    /\ interrupts = 1
    /\ Len(futures) = 3
    /\ Len(futures) < Len(urls)
    /\ \A i \in 1..Len(futures) : st[futures[i]] = "done" /\ calls[futures[i]] >= 1

\* C7: a task's terminal failure neither cancels nor skips a sibling and
\* never raises out of download_parallel: a task is over only by having been
\* run by a worker, the only exception that leaves the call is a
\* KeyboardInterrupt of the main thread, and a call that was not interrupted
\* returns normally with every task over.
Thm_C7_FailureIsolation ==
    choice = "5"
    => /\ exc # "none" => (exc = "KeyboardInterrupt" /\ interrupts >= 1)
       /\ \A t \in Tasks :
            st[t] = "done"
            => /\ picks[t] = 1
               /\ ret[t] \in {None, AbsPath(urls[t])}
               /\ retries >= 1 => calls[t] >= 1
       /\ (mainPc = "returned" /\ interrupts = 0)
          => /\ batchRet = BatchNone
             /\ \A i \in 1..Len(urls) : st[i] = "done"

\* C7 witness: the first five tasks of a batch of six failed, both kinds of
\* failure among them; the sixth, which waited for a free worker, still ran
\* and succeeded, and the call returned normally.
Wit_C7_SiblingRunsAfterFailures ==
    /\ ReturnedNormally
    /\ interrupts = 0
    /\ Len(urls) = 6
    /\ \A i \in 1..5 : Failed(i)
    /\ \E i, j \in 1..5 : LastOf(hist[i]) # LastOf(hist[j])
    /\ ret[6] = AbsPath(urls[6])

\* C8: at most max_workers (5) tasks are inside the delegate call at the same
\* time, whatever the number of urls.
Thm_C8_BoundedConcurrency == Cardinality(InFlight) <= max_workers

\* C8 witness: five tasks are inside the delegate call and a sixth waits in
\* the queue.
Wit_C8_SixthWaits ==
    /\ Cardinality(InFlight) = max_workers
    /\ \E t \in Tasks : st[t] = "queued"

\* C9: each descriptor is taken from the queue by one worker, once, and its
\* outcome, once set, never changes; when the batch returns, every descriptor
\* has been taken and has its outcome.
Thm_C9_ExactlyOnce ==
    /\ [](choice = "5"
          => /\ \A t \in Tasks :
                  /\ picks[t] <= 1
                  /\ st[t] \in {"inflight", "done"} <=> picks[t] = 1
                  /\ st[t] = "done" <=> ret[t] # Pending
             /\ ReturnedNormally
                => \A i \in 1..Len(urls) : st[i] = "done" /\ picks[i] = 1)
    /\ [][(choice = "5" /\ InRound)
          => \A t \in Tasks :
                /\ picks'[t] >= picks[t]
                /\ ret[t] # Pending => ret'[t] = ret[t]]_vars

\* C9 witness: a batch of more urls than workers has returned with every task
\* taken once.
Wit_C9_AllTakenOnce ==
    /\ ReturnedNormally
    /\ Len(urls) > max_workers
    /\ \A i \in 1..Len(urls) : picks[i] = 1 /\ ret[i] # Pending

\* C10: after a batch the user is never told that it succeeded when one of
\* its tasks ended in failure.
Cex_C10_NoSuccessMessageAfterFailure ==
    (BatchReturned /\ printed = "success")
    => \A i \in 1..Len(urls) : Truthy(ret[i])

(***************************************************************************)
(* Properties of tagging and logging                                       *)
(***************************************************************************)

Has(s, x) == \E i \in 1..Len(s) : s[i] = x
Count(s, X) == Cardinality({i \in 1..Len(s) : s[i] \in X})
ErrorRecords == {"ERROR download", "ERROR unexpected", "ERROR metadata"}

\* C11: when the delegate call succeeds and set_metadata then fails,
\* download_music still returns the path of the success, makes no further
\* delegate call, and no error reaches the caller: the failure leaves its log
\* record and nothing else.
Thm_C11_TaggingFailureSwallowed ==
    \A t \in Tasks :
        Has(log[t], "ERROR metadata")
        => /\ st[t] = "done"
           /\ LastOf(hist[t]) = "ok"
           /\ calls[t] = Len(hist[t])
           /\ ret[t] = SuccessValue(urls[t])
           /\ LastOf(log[t]) = "ERROR metadata"
           /\ choice = "1" => (printed = "success" /\ exc = "none")

\* C11 witness: a call that succeeded on its second attempt and whose tagging
\* failed has returned its path.
Wit_C11_TaggingFailedAfterRetry ==
    \E t \in Tasks :
        /\ log[t] = <<"WARNING retry", "ERROR metadata">>
        /\ hist[t] = <<"DownloadError", "ok">>
        /\ Truthy(ret[t])

\* The records a finished call of budget N leaves when its delegate results
\* were h: one warning per DownloadError among the first N-1 attempts.
RetriedFailures(h, N) ==
    Cardinality({i \in 1..Len(h) : i <= N - 1 /\ h[i] = "DownloadError"})
Warnings(t) == Count(log[t], {"WARNING retry"})
Errors(t) == Count(log[t], ErrorRecords)
Over(t) == st[t] = "done" /\ ~Interrupted(t) /\ hist[t] # << >>

\* C17 as stated: a finished call has logged one warning per recoverable
\* failure that was followed by another attempt, exactly one error when it
\* ended in a terminal failure and no error when it succeeded.
Cex_C17_NoErrorOnSuccess ==
    \A t \in Tasks :
        Over(t)
        => /\ Warnings(t) = RetriedFailures(hist[t], retries)
           /\ Warnings(t) + Errors(t) = Len(log[t])
           /\ Failed(t) => Errors(t) = 1
           /\ Truthy(ret[t]) => Errors(t) = 0

\* C17 amended: the warnings are as stated and a terminal failure logs exactly
\* one error, the last record of the call; a success logs no error of
\* download_music, but it logs one error of set_metadata, after the warnings,
\* when the tagging failed.
Thm_C17_WarningsAndErrors ==
    [](\A t \in Tasks :
           Over(t)
           => /\ Warnings(t) = RetriedFailures(hist[t], retries)
              /\ Warnings(t) + Errors(t) = Len(log[t])
              /\ \A i \in 1..Warnings(t) : log[t][i] = "WARNING retry"
              /\ Failed(t)
                 => /\ Errors(t) = 1
                    /\ LastOf(log[t]) = IF LastOf(hist[t]) = "DownloadError"
                                        THEN "ERROR download"
                                        ELSE "ERROR unexpected"
              /\ Truthy(ret[t])
                 => /\ Errors(t) <= 1
                    /\ Errors(t) = 1 => LastOf(log[t]) = "ERROR metadata")

\* C17 witness: a call of budget 3 failed three times: two warnings, then the
\* one error; another succeeded at its third attempt and logged the error of
\* set_metadata after its two warnings.
Wit_C17_TwoWarningsThenError ==
    /\ retries = 3
    /\ \E t \in Tasks :
        /\ Failed(t)
        /\ log[t] = <<"WARNING retry", "WARNING retry", "ERROR download">>
    /\ \E t \in Tasks :
        /\ Truthy(ret[t])
        /\ log[t] = <<"WARNING retry", "WARNING retry", "ERROR metadata">>

\* C20: set_metadata is called at most once per call of download_music, in the
\* step that follows a successful delegate call, which is the last of the
\* call; a call that has only failed attempts, or ended in a terminal failure,
\* has not called it.
Thm_C20_TaggedOnlyAfterSuccess ==
    /\ [](\A t \in Tasks :
            /\ tagged[t] <= 1
            /\ tagged[t] = 1
               <=> (MusicCall /\ hist[t] # << >> /\ LastOf(hist[t]) = "ok")
            /\ tagged[t] = 1 => st[t] = "done" /\ Truthy(ret[t])
            /\ Failed(t) => tagged[t] = 0)
    /\ [][\A t \in Tasks :
            (InRound /\ tagged'[t] # tagged[t])
            => /\ tagged[t] = 0
               /\ st[t] = "inflight"
               /\ hist'[t] = Append(hist[t], "ok")]_vars

\* C20 witness: a call with two failed attempts and a successful third has
\* called set_metadata once.
Wit_C20_TaggedOnceAfterTwoFailures ==
    \E t \in Tasks :
        /\ hist[t] = <<"DownloadError", "DownloadError", "ok">>
        /\ tagged[t] = 1
        /\ calls[t] = 3

\* C16: the value download_parallel hands to its caller does not depend on
\* the outcomes of the tasks: a call that returns hands back None with no
\* outcome in it, whichever tasks succeeded or failed, and a call that raises
\* does so for a KeyboardInterrupt of the main thread only.
Thm_C16_ReturnValueIndependentOfOutcomes ==
    BatchReturned
    => /\ batchRet = IF interrupts = 0 THEN BatchNone ELSE BatchRaised
       /\ batchRet.outcomes = << >>
       /\ printed = IF interrupts = 0 THEN "success" ELSE "canceled"

\* C16 witness: a batch of two whose first task failed and whose second
\* succeeded has returned None.
Wit_C16_MixedOutcomesSameValue ==
    /\ ReturnedNormally
    /\ Len(urls) = 2
    /\ Outcomes = <<None, AbsPath(2)>>
    /\ batchRet = BatchNone

(***************************************************************************)
(* Properties of an interrupted batch                                      *)
(***************************************************************************)

\* An interrupt of the main thread submits nothing, and changes no task: a
\* running delegate call goes on and ends by its own result only.
InterruptLeavesTasks ==
    /\ [][(choice = "5" /\ InRound /\ interrupts >= 1) => futures' = futures]_vars
    /\ [][(choice = "5" /\ InRound /\ interrupts' # interrupts)
          => UNCHANGED taskVars]_vars
    /\ [][\A t \in Tasks :
            (choice = "5" /\ InRound /\ st[t] = "inflight" /\ st'[t] # "inflight")
            => hist'[t] # hist[t]]_vars

\* C12 as stated: after a KeyboardInterrupt in download_parallel no task is
\* submitted, no running delegate call is ended, and the interrupt reaches the
\* caller only when every submitted task is over.
Cex_C12_DeliveredAfterDrain ==
    /\ InterruptLeavesTasks
    /\ []((BatchReturned /\ batchRet = BatchRaised) => Unfinished = {})

\* C12 amended: after a KeyboardInterrupt in download_parallel no task is
\* submitted and no running delegate call is ended; a single interrupt reaches
\* the caller only when every submitted task is over, while a second one,
\* arriving during that wait, reaches the caller at once with the submitted
\* tasks still queued or running.
Thm_C12_DeliveredAfterDrainUnlessSecond ==
    /\ InterruptLeavesTasks
    /\ [](BatchReturned
          => /\ interrupts = 1 => (Unfinished = {} /\ batchRet = BatchRaised)
             /\ interrupts = 2 => batchRet = BatchRaised)
    /\ [][(choice = "5" /\ interrupts = 1 /\ interrupts' = 2)
          => (Unfinished # {} /\ mainPc' = "returned" /\ UNCHANGED taskVars)]_vars

\* C12 witness: a batch of six was interrupted once after the sixth submit,
\* with the sixth task still queued; the interrupt reached the caller with
\* all six tasks over.
Wit_C12_QueuedTaskDrained ==
    /\ BatchReturned
    /\ interrupts = 1
    /\ printed = "canceled"
    /\ Len(futures) = 6
    /\ \A i \in 1..6 : st[futures[i]] = "done" /\ picks[futures[i]] = 1

(***************************************************************************)
(* The batch against download_music run alone                              *)
(***************************************************************************)

\* download_music(u, retries = r) run alone, from its loop iteration a, with
\* a delegate that gives the results h (from the i-th on) and a tagging that
\* gives g: the value it returns, or Pending while it waits for a result that
\* h does not hold.
RECURSIVE AloneFrom(_, _, _, _, _, _)
AloneFrom(u, r, a, h, i, g) ==
    IF i > Len(h)
    THEN Pending
    ELSE LET x == AfterCall(u, a, r, h[i], g) IN
         IF x.st = "done" THEN x.ret ELSE AloneFrom(u, r, x.attempt, h, i + 1, g)

Alone(u, r, h, g) ==
    LET e == EnterMusic(r) IN
    IF e.st = "done" THEN e.ret ELSE AloneFrom(u, r, e.attempt, h, 1, g)

TagOf(t) == IF Has(log[t], "ERROR metadata") THEN "Exception" ELSE "ok"

\* C13: whatever the interleaving of the workers and the outcomes of the
\* sibling tasks, the task at each position of a batch that a worker has taken
\* holds the value download_music returns when run alone on the url of that
\* position with the delegate results the task got, and is over exactly when
\* that call is; so does the call of menu choice "1", which runs alone.
Thm_C13_TaskEqualsCallAlone ==
    [](\A t \in 1..Len(urls) :
        (MusicCall /\ st[t] \in {"inflight", "done"} /\ ~Interrupted(t))
        => /\ ret[t] = Alone(urls[t], retries, hist[t], TagOf(t))
           /\ st[t] = "done" <=> ret[t] # Pending)

\* C13 witness: in a batch of three of budget 2 the first task failed twice,
\* the second succeeded at its second attempt, the third was ended by an
\* unexpected error; each holds the value of the call run alone.
Wit_C13_ThreeDifferentSiblings ==
    /\ choice = "5"
    /\ retries = 2
    /\ Len(urls) = 3
    /\ hist[1] = <<"DownloadError", "DownloadError">> /\ ret[1] = None
    /\ hist[2] = <<"DownloadError", "ok">> /\ ret[2] = AbsPath(urls[2])
    /\ hist[3] = <<"Exception">> /\ ret[3] = None
    /\ \A t \in 1..3 : ret[t] = Alone(urls[t], retries, hist[t], TagOf(t))

(***************************************************************************)
(* Output files of a batch                                                 *)
(***************************************************************************)

\* The tasks inside a delegate call that writes the output file of url u.
Writers(u) == {t \in InFlight : TaskUrl(t) = u}

\* C19: download_parallel neither drops a url it was given twice nor keeps a
\* task waiting for the output file of its url: every position of the list
\* gets its own future, and the head of the work queue can be started as soon
\* as a worker is free, also while a sibling writes the same file.
Thm_C19_NoLockNoDeduplication ==
    [](choice = "5"
       => /\ (mainPc \in {"collect", "returned"} /\ interrupts = 0)
             => Len(futures) = Len(urls)
          /\ \A t \in 1..Len(futures) : futures[t] = t /\ TaskUrl(t) = urls[t]
          /\ \A t \in 1..Len(futures) :
               (st[t] = "queued" /\ picks[t] = 0 /\ WorkerFree
                /\ \A q \in 1..(t - 1) : st[q] # "queued")
               => ENABLED Start(t))

\* C19 witness: both tasks of a batch that holds the same url twice are inside
\* their delegate calls, writing the same output file.
Wit_C19_TwoWritersOfOneFile ==
    /\ choice = "5"
    /\ Len(urls) = 2
    /\ urls[1] = urls[2]
    /\ Cardinality(Writers(urls[1])) = 2

(***************************************************************************)
(* What the workers of a batch read and write                              *)
(***************************************************************************)

\* The tasks whose private state (option dictionary, loop variable, call
\* count, results, tag count, returned value, log) a step writes.
Written ==
    {t \in Tasks :
        <<opts[t], attempt[t], calls[t], hist[t], tagged[t], ret[t], log[t]>>
        # <<opts'[t], attempt'[t], calls'[t], hist'[t], tagged'[t], ret'[t],
            log'[t]>>}

\* C14: from the call of download_parallel on no step changes the url list,
\* the retry budget, or the proxy, output format and output directory; each
\* task a worker has taken works with the url of its position and with an
\* option dictionary built from the caller's values, a task not yet taken has
\* none; and a step writes the private state of one task at most.
Thm_C14_SharedParametersUnchanged ==
    /\ [][(mainPc \notin {"menu", "wait"} /\ InRound)
          => UNCHANGED <<urls, retries, args>>]_vars
    /\ [][(choice = "5" /\ InRound) => Cardinality(Written) <= 1]_vars
    /\ [](choice = "5"
          => /\ args = MenuArgs
             /\ \A t \in Tasks :
                  /\ st[t] \in {"inflight", "done"}
                     => opts[t] = ydl_opts(MenuArgs) /\ TaskUrl(t) = urls[t]
                  /\ st[t] \in {"new", "queued"}
                     => opts[t] = NoOpts /\ attempt[t] = 0 /\ calls[t] = 0)

\* C14 witness: while the main thread is still submitting the urls of a batch
\* of three, the first task is in its second loop iteration and the second in
\* its first, each with its own dictionary, and the third has none.
Wit_C14_TwoWorkersOwnCounters ==
    /\ choice = "5"
    /\ mainPc = "submit"
    /\ Len(urls) = 3
    /\ st[1] = "inflight" /\ attempt[1] = 1 /\ opts[1] = ydl_opts(args)
    /\ st[2] = "inflight" /\ attempt[2] = 0 /\ opts[2] = ydl_opts(args)
    /\ st[3] = "new" /\ opts[3] = NoOpts

(***************************************************************************)
(* download_music called twice                                             *)
(***************************************************************************)

AllOk(h) == \A i \in 1..Len(h) : h[i] = "ok"

\* C15: when download_music has been called twice with the same arguments
\* (budget at least 1) and the delegate succeeded whenever it was called, both
\* calls returned the same path and each called the delegate exactly once.
Thm_C15_SecondCallLikeFirst ==
    (/\ choice = "1" /\ round = 2 /\ mainPc = "returned" /\ retries >= 1
     /\ ~Interrupted(1)
     /\ prev.hist = <<"ok">>
     /\ AllOk(hist[1]))
    => /\ Truthy(prev.ret)
       /\ ret[1] = prev.ret
       /\ prev.calls = 1
       /\ calls[1] = 1
       /\ hist[1] = <<"ok">>
       /\ printed = "success"

\* C15 witness: the second call of budget 3 has returned the path the first
\* one returned, after one delegate call each.
Wit_C15_TwoCallsSamePath ==
    /\ choice = "1"
    /\ round = 2
    /\ mainPc = "returned"
    /\ retries = 3
    /\ prev = [ret |-> AbsPath(1), calls |-> 1, hist |-> <<"ok">>]
    /\ ret[1] = AbsPath(1)
    /\ calls[1] = 1

(***************************************************************************)
(* A delegate call that never returns                                      *)
(***************************************************************************)

\* C18: there is no timeout. A task leaves its delegate call only by the
\* call's own result; while the call of a task has not returned
\* download_parallel does not return; and whether or not the call of one task
\* ever returns, a state comes in which every other task of the batch that
\* was queued or running has reached the end of its call.
Thm_C18_HungCallBlocksBatchOnly ==
    /\ [][\A t \in Tasks :
            (choice = "5" /\ InRound /\ st[t] = "inflight" /\ hist'[t] = hist[t])
            => st'[t] = "inflight"]_vars
    /\ [](\A t \in Tasks :
            (choice = "5" /\ st[t] \in {"queued", "inflight"}) => ~ReturnedNormally)
    /\ [](choice = "5"
          => <>(\A t \in Tasks : st[t] \in {"queued", "inflight"} => MayHang(t)))

\* C18 witness: in a batch of six the call of the first task has not returned
\* while the five others, the one that had to wait for a worker among them,
\* are over; download_parallel waits for the first future.
Wit_C18_FiveDoneBehindHungCall ==
    /\ choice = "5"
    /\ mainPc = "collect"
    /\ interrupts = 0
    /\ Len(urls) = 6
    /\ st[1] = "inflight" /\ hist[1] = << >>
    /\ \A t \in 2..6 : st[t] = "done"

(***************************************************************************)
(* The retry budget                                                        *)
(***************************************************************************)

\* C22: download_music called with retries <= 0 never enters the delegate
\* call, logs nothing, calls no set_metadata and returns None, the value of
\* an exhausted budget; no exception tells the caller of the budget.
Thm_C22_NoAttemptWithoutBudget ==
    [](\A t \in 1..Len(urls) :
        (retries <= 0 /\ choice \in {"1", "5"})
        => /\ st[t] # "inflight"
           /\ calls[t] = 0 /\ hist[t] = << >> /\ log[t] = << >> /\ tagged[t] = 0
           /\ st[t] = "done"
              => /\ ret[t] = None
                 /\ ret[t] = FailureValue("DownloadError")
                 /\ choice = "1" => (exc = "none" /\ printed = "failed"))

\* C22 witness: download_music(url, retries = 0) has returned None without a
\* delegate call and the menu reports the failure.
Wit_C22_ZeroBudgetFails ==
    /\ choice = "1"
    /\ retries = 0
    /\ mainPc = "returned"
    /\ ret[1] = None
    /\ calls[1] = 0
    /\ printed = "failed"

\* C23: a call of budget N makes at most N delegate calls (none when N <= 0);
\* while it is inside its delegate call the loop variable is below N and
\* counts the calls that have returned; each return of the delegate either
\* ends the call or moves the loop variable up by one, and nothing moves it
\* down. So a call whose delegate calls all return is over after N of them at
\* most.
Thm_C23_LoopVariableBounded ==
    /\ [](\A t \in 1..Len(urls) :
            /\ LoopCall => calls[t] <= (IF retries > 0 THEN retries ELSE 0)
            /\ (LoopCall /\ st[t] = "inflight")
               => /\ attempt[t] < retries
                  /\ attempt[t] = Len(hist[t])
                  /\ calls[t] = attempt[t] + 1)
    /\ [][\A t \in Tasks :
            (InRound /\ st[t] = "inflight" /\ hist'[t] # hist[t])
            => \/ st'[t] = "done"
               \/ st'[t] = "inflight" /\ attempt'[t] = attempt[t] + 1]_vars
    /\ [][\A t \in Tasks :
            (InRound /\ st[t] = "inflight" /\ st'[t] = "inflight")
            => attempt'[t] >= attempt[t]]_vars

\* C23 witness: a call of budget 3 is inside its third and last delegate
\* call.
Wit_C23_LastIterationRunning ==
    /\ retries = 3
    /\ \E t \in Tasks :
        /\ st[t] = "inflight"
        /\ attempt[t] = 2
        /\ calls[t] = 3
        /\ hist[t] = <<"DownloadError", "DownloadError">>

(***************************************************************************)
(* The delegate calls of a batch                                           *)
(***************************************************************************)

RECURSIVE SumTo(_, _)
SumTo(f, n) == IF n = 0 THEN 0 ELSE f[n] + SumTo(f, n - 1)

\* The delegate calls the tasks of the batch have made so far.
TotalCalls == SumTo(calls, Len(urls))

\* C25: in a batch over n urls with budget r >= 1 the tasks have made n*r
\* delegate calls at most at every point, none of them more than r; when
\* download_parallel returns each task has made one call at least, n at least
\* in all.
Thm_C25_BatchCallsBounded ==
    []((choice = "5" /\ retries >= 1)
       => /\ TotalCalls <= Len(urls) * retries
          /\ \A t \in 1..Len(urls) : calls[t] <= retries
          /\ ReturnedNormally
             => /\ TotalCalls >= Len(urls)
                /\ \A t \in 1..Len(urls) : calls[t] >= 1)

\* C25 witness: a batch of two urls with budget 3 has returned after six
\* delegate calls, three for each url.
Wit_C25_BoundAttained ==
    /\ ReturnedNormally
    /\ Len(urls) = 2
    /\ retries = 3
    /\ calls[1] = 3 /\ calls[2] = 3
    /\ TotalCalls = Len(urls) * retries

(***************************************************************************)
(* Properties of the other wrappers                                        *)
(***************************************************************************)

\* C21: a call of any of the eleven other retrying wrappers with budget r
\* whose delegate has given the results h is over exactly when download_music
\* run alone with budget r on the same results is over, not before, has made
\* the same number of delegate calls, and succeeds exactly when download_music
\* does.
Thm_C21_WrappersRetryAsMusic ==
    [](\A t \in 1..Len(urls) :
        (choice \in WrapperChoices /\ st[t] \in {"inflight", "done"} /\ ~Interrupted(t))
        => LET m == Alone(urls[t], retries, hist[t], "ok") IN
            /\ st[t] = "done" <=> m # Pending
            /\ Truthy(ret[t]) <=> Truthy(m)
            /\ (st[t] = "done" /\ hist[t] # << >>)
               => Alone(urls[t], retries, Front(hist[t]), "ok") = Pending
            /\ calls[t] = Len(hist[t]) + (IF m = Pending THEN 1 ELSE 0))

\* C21 witness: download_video_chunked with budget 3 failed after three
\* recoverable errors, as download_music does on these results.
Wit_C21_ChunkedExhaustsLikeMusic ==
    /\ choice = "9"
    /\ retries = 3
    /\ st[1] = "done"
    /\ hist[1] = <<"DownloadError", "DownloadError", "DownloadError">>
    /\ calls[1] = 3
    /\ ret[1] = None
    /\ Alone(urls[1], 3, hist[1], "ok") = None

\* A second case of C21: download_playlist succeeded at its second attempt
\* and returned the directory, where download_music returns the file.
Wit_C21_PlaylistSucceedsLikeMusic ==
    /\ choice = "2"
    /\ hist[1] = <<"DownloadError", "ok">>
    /\ ret[1] = AbsDir
    /\ Alone(urls[1], retries, hist[1], "ok") = AbsPath(urls[1])

\* C26: download_preview, once called (the duration typed is a number), makes
\* one delegate call and no more: while the call runs no result has come, the
\* first result of whatever kind ends it, and
\* after a single DownloadError it has returned None with the error logged
\* and no retry announced; a retrying wrapper with budget 2 or more is inside
\* its second delegate call after the same single result.
Thm_C26_PreviewCallsOnce ==
    /\ [](choice = "14" /\ exc # "ValueError"
          => /\ calls[1] = 1
             /\ Len(hist[1]) <= 1
             /\ st[1] = "inflight" <=> (hist[1] = << >> /\ ~Interrupted(1))
             /\ hist[1] # << >> => st[1] = "done" /\ ret[1] # Pending
             /\ hist[1] = <<"ok">> => ret[1] = AbsPath(urls[1])
             /\ hist[1] = <<"DownloadError">>
                => ret[1] = None /\ log[1] = <<"ERROR download">>
             /\ hist[1] = <<"Exception">>
                => ret[1] = None /\ log[1] = <<"ERROR unexpected">>)
    /\ [](\A t \in 1..Len(urls) :
            (LoopCall /\ retries >= 2 /\ hist[t] = <<"DownloadError">>
                /\ ~Interrupted(t))
            => st[t] = "inflight" /\ calls[t] = 2)

\* C26 witness: download_preview has failed after one DownloadError and one
\* delegate call.
Wit_C26_PreviewFailsAfterOneError ==
    /\ choice = "14"
    /\ exc = "none"
    /\ st[1] = "done"
    /\ hist[1] = <<"DownloadError">>
    /\ calls[1] = 1
    /\ ret[1] = None
    /\ printed = "failed"

(***************************************************************************)
(* Properties of the menu loop                                             *)
(***************************************************************************)

\* C28: when every call comes back, the menu is shown again after every
\* choice other than "16": each branch ends with a message, whether the call
\* returned a path, returned None, raised an exception or was interrupted, and
\* the loop goes round. The program is over exactly by choice "16", entered
\* at the menu. A text that is no choice makes no task and no delegate call.
Thm_C28_MenuShownAgain ==
    /\ [](choice \notin {"none", "16"} => <>(mainPc = "menu"))
    /\ [](/\ mainPc = "exited" <=> choice = "16"
          /\ mainPc = "menu" <=> choice = "none"
          /\ mainPc = "returned"
             => printed \in {"success", "failed", "canceled", "error", "invalid"}
          /\ exc = "ValueError" => mainPc = "returned" /\ printed = "error"
          /\ exc = "KeyboardInterrupt" /\ mainPc = "returned" => printed = "canceled"
          /\ choice \in OtherChoices
             => /\ printed = "invalid"
                /\ futures = << >>
                /\ \A t \in Tasks : st[t] = "new" /\ calls[t] = 0)
    /\ [][mainPc' = "exited" => mainPc = "menu"]_vars

\* C28 witness: the menu is shown again below the message that the download
\* was canceled.
Wit_C28_MenuAfterCancel ==
    /\ mainPc = "menu"
    /\ choice = "none"
    /\ printed = "canceled"

(***************************************************************************)
(* Properties of scheduled_download                                        *)
(***************************************************************************)

\* download_video has been called in this round.
Invoked == st[1] # "new"

\* C27: in a call of scheduled_download with a scheduled time, download_video
\* has not been called at any point where the clock is before that time, and
\* has been called at every point where the clock has reached it (at the call
\* of scheduled_download already when the time is not ahead); with no
\* scheduled time it has been called from the beginning. It is called with a
\* budget of 3, and once: after its call the round never waits again nor
\* starts a second call. A wait that the user interrupts ends before the
\* time, without a call.
Thm_C27_NotBeforeScheduledTime ==
    /\ [](choice = "13"
          => /\ scheduled_time.kind = "time"
                => (Invoked <=> now >= scheduled_time.at)
             /\ scheduled_time.kind = "blank" => Invoked
             /\ mainPc = "wait"
                <=> (/\ scheduled_time.kind = "time"
                     /\ now < scheduled_time.at
                     /\ exc = "none")
             /\ ~Invoked => calls[1] = 0 /\ hist[1] = << >> /\ mainPc # "call"
             /\ Invoked
                => /\ retries = default_retries
                   /\ calls[1] >= 1
                   /\ calls[1] <= default_retries)
    /\ [][(choice = "13" /\ InRound /\ Invoked)
          => /\ Invoked'
             /\ mainPc' # "wait"
             /\ calls'[1] >= calls[1]
             /\ UNCHANGED <<now, scheduled_time, retries>>]_vars
    /\ [][(choice = "13" /\ InRound /\ now' # now)
          => (mainPc = "wait" /\ now' > now)]_vars

\* C27 witness: the wait for second 3 ended at second 4, after a sleep that
\* took two seconds, and download_video is inside its first delegate call
\* with a budget of 3.
Wit_C27_InvokedWhenTimeReached ==
    /\ choice = "13"
    /\ scheduled_time = At(3)
    /\ now = 4
    /\ mainPc = "call"
    /\ st[1] = "inflight"
    /\ calls[1] = 1
    /\ retries = 3

(***************************************************************************)
(* Termination of a batch                                                  *)
(***************************************************************************)

\* C24: when every delegate call returns or raises, a call of download_parallel
\* on any list, the empty one and one longer than the pool included, comes
\* back to the menu, and when it does without a second interrupt every task
\* that was submitted has been started and is over: all the tasks of the list
\* unless an interrupt stopped the submit loop. With no url the call is over
\* at once.
Thm_C24_BatchTerminates ==
    /\ [](choice = "5" => <>(choice = "5" /\ mainPc = "returned"))
    /\ []((BatchReturned /\ interrupts <= 1)
          => /\ \A t \in Submitted : st[t] = "done" /\ picks[t] = 1
             /\ interrupts = 0
                => Submitted = 1..Len(urls) /\ ReturnedNormally)
    /\ []((choice = "5" /\ urls = << >>) => ReturnedNormally)

\* C24 witness: a batch of six urls, one more than the pool has workers, has
\* returned with the sixth task, which waited in the queue, run to its end.
Wit_C24_QueuedSixthRan ==
    /\ ReturnedNormally
    /\ interrupts = 0
    /\ Len(urls) = max_workers + 1
    /\ retries = 1
    /\ \A t \in 1..Len(urls) : st[t] = "done" /\ calls[t] = 1
    /\ hist[max_workers + 1] = <<"Exception">>

====
